---- MODULE Spec2Model ----
(***************************************************************************)
(* The TDD gate of opencode-tdd: the "tool.execute.before" hook, the       *)
(* configuration loader, the test-output reader, the verifier and the      *)
(* audit logger.                                                           *)
(*                                                                         *)
(* Texts.  A message is a sequence of string pieces; template literals and *)
(* concatenation are \o, so "TDD: " followed by a reason is                *)
(* <<"TDD: ">> \o reason.  The test-output text is a sequence of           *)
(* characters, because the failing-marker count is a character-level       *)
(* search.  A verifier response is a sequence of lexical tokens (fence,    *)
(* tag, white space, text, JSON value), because extraction and parsing are *)
(* searches over that text.                                                *)
(***************************************************************************)
EXTENDS Integers, Sequences, FiniteSets, TLC

VARIABLES
    cfgFile,    \* content of <projectRoot>/.opencode/tdd.json
    artifact,   \* the test-output file: absent, or its text and mtime
    now,        \* Date.now(), in milliseconds
    logDir,     \* whether <projectRoot>/.opencode/tdd exists
    logFile,    \* the lines of tdd.log, oldest first
    inv,        \* per hook invocation: its position and its locals
    calls,      \* number of hook invocations started so far
    client,     \* the client the plugin was constructed with
    sessions    \* the sessions the host created, by id: owner and calls received

vars == <<cfgFile, artifact, now, logDir, logFile, inv, calls, client, sessions>>

(***************************************************************************)
(* Bounds of the model.                                                    *)
(***************************************************************************)
MaxCalls == 2

(***************************************************************************)
(* JSON values, as JSON.parse produces them.  An object carries the fields *)
(* that are present; reading a field that is absent gives undefined.       *)
(***************************************************************************)
JUndefined == [ty |-> "undefined"]
JNull == [ty |-> "null"]
JStr(s) == [ty |-> "string", s |-> s]
JNum(n) == [ty |-> "number", n |-> n]
JArr(items) == [ty |-> "array", items |-> items]
JObj(fields) == [ty |-> "object", fields |-> fields]

\* value.key in JavaScript, for a value that is neither null nor undefined
JGet(value, key) ==
    IF value.ty = "object" /\ key \in DOMAIN value.fields
    THEN value.fields[key]
    ELSE JUndefined

\* value.key throws a TypeError when value is null or undefined
JGetThrows(value) == value.ty \in {"null", "undefined"}

\* A thrown Error object, and a thrown value that is no Error instance
ErrorOf(message) == [isError |-> TRUE, message |-> message]
NonError(value) == [isError |-> FALSE, message |-> value]

(***************************************************************************)
(* Configuration loader (config.ts).                                       *)
(***************************************************************************)
\* The configuration file on disk: absent, or present with a text that is
\* empty, not JSON, or the JSON text of a value.
NoFile == [exists |-> FALSE]
FileEmpty == [exists |-> TRUE, kind |-> "empty", value |-> JUndefined]
FileNotJson == [exists |-> TRUE, kind |-> "invalid", value |-> JUndefined]
FileJson(value) == [exists |-> TRUE, kind |-> "json", value |-> value]

DefaultMaxTestOutputAge == 300

Thrown(error) == [ok |-> FALSE, error |-> error]
Value(v) == [ok |-> TRUE, value |-> v]

requireString(value, field) ==
    IF value.ty # "string" \/ value.s = ""
    THEN Thrown(ErrorOf(<<"TDD: ", "Missing config field: ", field>>))
    ELSE Value(value.s)

requireStringArray(value, field) ==
    IF value.ty # "array"
          \/ \E i \in DOMAIN value.items : value.items[i].ty # "string"
    THEN Thrown(ErrorOf(<<"TDD: ", field, " must be an array of strings">>))
    ELSE Value([i \in DOMAIN value.items |-> value.items[i].s])

\* enforcePatterns of a loaded configuration: undefined, or a list of strings
NoPatterns == [defined |-> FALSE, list |-> <<>>]
Patterns(list) == [defined |-> TRUE, list |-> list]

\* loadConfig, lines 270-297: the text that was read is parsed and checked
parseConfig(file) ==
    IF file.kind = "invalid"
    THEN [kind |-> "throw", error |-> ErrorOf(<<"TDD: ", "Invalid config JSON">>)]
    ELSE IF JGetThrows(file.value)
    THEN [kind |-> "throw",
          error |-> ErrorOf(<<"TypeError: cannot read properties of null">>)]
    ELSE
      LET config == file.value
          testOutputFile == requireString(JGet(config, "testOutputFile"), "testOutputFile")
          rawPatterns == JGet(config, "enforcePatterns")
          enforcePatterns ==
              IF rawPatterns # JUndefined
              THEN requireStringArray(rawPatterns, "enforcePatterns")
              ELSE Value(<<>>)
          verifierModel == requireString(JGet(config, "verifierModel"), "verifierModel")
          rawAge == JGet(config, "maxTestOutputAge")
          maxTestOutputAge ==
              IF rawAge.ty = "number" THEN rawAge.n ELSE DefaultMaxTestOutputAge
      IN  IF ~testOutputFile.ok
          THEN [kind |-> "throw", error |-> testOutputFile.error]
          ELSE IF ~enforcePatterns.ok
          THEN [kind |-> "throw", error |-> enforcePatterns.error]
          ELSE IF ~verifierModel.ok
          THEN [kind |-> "throw", error |-> verifierModel.error]
          ELSE [kind |-> "loaded",
                config |-> [testOutputFile |-> testOutputFile.value,
                            enforcePatterns |->
                                IF rawPatterns # JUndefined
                                THEN Patterns(enforcePatterns.value)
                                ELSE NoPatterns,
                            verifierModel |-> verifierModel.value,
                            maxTestOutputAge |-> maxTestOutputAge]]

loadConfig_MissingIsError(file) ==
    IF ~file.exists
    THEN [kind |-> "throw", error |-> ErrorOf(<<"TDD: ", "Missing config">>)]
    ELSE IF file.kind = "empty" THEN [kind |-> "missing"]
    ELSE parseConfig(file)

\* loadConfig, lines 264-268: no file, a file that cannot be read and an
\* empty file all give configRaw a falsy value
loadConfig(file) ==
    IF ~file.exists \/ file.kind = "empty"
    THEN [kind |-> "missing"]
    ELSE parseConfig(file)

(***************************************************************************)
(* Enforcement scope (index.ts, isEnforced).  A path and a glob are split  *)
(* at "/" into segments; picomatch matches a glob segment "*" against one  *)
(* segment, "**" against any run of segments, anything else literally, and *)
(* neither wildcard matches a segment that starts with a dot.              *)
(***************************************************************************)
Split(s) ==
    CASE s = "src/**" -> <<"src", "**">>
      [] s = "test/**" -> <<"test", "**">>
      [] s = "**/*" -> <<"**", "*">>
      [] s = "src/example.ts" -> <<"src", "example.ts">>
      [] s = "test/example.test.ts" -> <<"test", "example.test.ts">>
      [] s = "docs/readme.md" -> <<"docs", "readme.md">>
      [] OTHER -> <<s>>

DotSegments == {".env", ".github"}

RECURSIVE GlobMatch(_, _)
GlobMatch(glob, path) ==
    IF glob = <<>> THEN path = <<>>
    ELSE IF Head(glob) = "**"
    THEN GlobMatch(Tail(glob), path)
           \/ (path # <<>> /\ Head(path) \notin DotSegments
                 /\ GlobMatch(glob, Tail(path)))
    ELSE IF path = <<>> THEN FALSE
    ELSE IF Head(glob) = "*"
    THEN Head(path) \notin DotSegments /\ GlobMatch(Tail(glob), Tail(path))
    ELSE Head(glob) = Head(path) /\ GlobMatch(Tail(glob), Tail(path))

\* picomatch(patterns)(filePath): some pattern of the list matches
picomatch(patterns, filePath) ==
    \E i \in DOMAIN patterns : GlobMatch(Split(patterns[i]), Split(filePath))

isEnforced_DefaultAll(filePath, enforcePatterns) ==
    IF ~enforcePatterns.defined THEN TRUE
    ELSE picomatch(enforcePatterns.list, filePath)

isEnforced(filePath, enforcePatterns) ==
    IF ~enforcePatterns.defined THEN FALSE
    ELSE picomatch(enforcePatterns.list, filePath)

(***************************************************************************)
(* Failing-marker count (index.ts, countFailingTests).  The text is a      *)
(* sequence of characters.  Each pattern is searched from left to right    *)
(* for non-overlapping matches: a word pattern ignores case and needs a    *)
(* word boundary on both sides, the glyph pattern is an exact sequence.    *)
(***************************************************************************)
UpperCase == <<"A", "B", "C", "D", "E", "F", "G", "H", "I", "J", "K", "L", "M",
               "N", "O", "P", "Q", "R", "S", "T", "U", "V", "W", "X", "Y", "Z">>
LowerCase == <<"a", "b", "c", "d", "e", "f", "g", "h", "i", "j", "k", "l", "m",
               "n", "o", "p", "q", "r", "s", "t", "u", "v", "w", "x", "y", "z">>
Digits == {"0", "1", "2", "3", "4", "5", "6", "7", "8", "9"}

\* \w of a JavaScript regular expression
IsWordChar(c) ==
    \/ \E i \in DOMAIN UpperCase : c = UpperCase[i] \/ c = LowerCase[i]
    \/ c \in Digits
    \/ c = "_"

\* case folding of the i flag
Lower(c) ==
    IF \E i \in DOMAIN UpperCase : c = UpperCase[i]
    THEN LowerCase[CHOOSE i \in DOMAIN UpperCase : c = UpperCase[i]]
    ELSE c

\* \b at the gap before position i (1 <= i <= Len(text) + 1)
IsBoundary(text, i) ==
    LET before == i > 1 /\ IsWordChar(text[i - 1])
        after == i <= Len(text) /\ IsWordChar(text[i])
    IN  before # after

\* the pattern /\bword\b/i matches at position i
WordMatchAt(text, word, i) ==
    /\ i + Len(word) - 1 <= Len(text)
    /\ \A j \in DOMAIN word : Lower(text[i + j - 1]) = word[j]
    /\ IsBoundary(text, i)
    /\ IsBoundary(text, i + Len(word))

\* the pattern /glyph/ matches at position i
ExactMatchAt(text, glyph, i) ==
    /\ i + Len(glyph) - 1 <= Len(text)
    /\ \A j \in DOMAIN glyph : text[i + j - 1] = glyph[j]

\* text.match(pattern) with the g flag: the number of matches found by
\* scanning from position i, each match resuming after its end
RECURSIVE MatchCount(_, _, _)
MatchCount(text, pattern, i) ==
    IF i > Len(text) THEN 0
    ELSE IF (pattern.word /\ WordMatchAt(text, pattern.chars, i))
              \/ (~pattern.word /\ ExactMatchAt(text, pattern.chars, i))
    THEN 1 + MatchCount(text, pattern, i + Len(pattern.chars))
    ELSE MatchCount(text, pattern, i + 1)

\* the four patterns of failPatterns, in the source's order; the second is
\* the three-character sequence U+00E2 U+0153 U+2014 the source file holds
failPatterns ==
    << [word |-> TRUE, chars |-> <<"f", "a", "i", "l">>],
       [word |-> FALSE, chars |-> <<"U+00E2", "U+0153", "U+2014">>],
       [word |-> TRUE, chars |-> <<"f", "a", "i", "l", "e", "d">>],
       [word |-> TRUE, chars |-> <<"f", "a", "i", "l", "i", "n", "g">>] >>

RECURSIVE SumCounts(_, _)
SumCounts(text, k) ==
    IF k = 0 THEN 0
    ELSE MatchCount(text, failPatterns[k], 1) + SumCounts(text, k - 1)

countFailingTests(testOutput) == SumCounts(testOutput, Len(failPatterns))

(***************************************************************************)
(* Test-output reader (index.ts, getTestOutput).                           *)
(***************************************************************************)
NoArtifact == [exists |-> FALSE]
ArtifactOf(text, mtimeMs) ==
    [exists |-> TRUE, readable |-> TRUE, text |-> text, mtimeMs |-> mtimeMs]

\* something stat finds and readFile cannot read (a directory at the path)
UnreadableArtifact(mtimeMs) ==
    [exists |-> TRUE, readable |-> FALSE, text |-> <<>>, mtimeMs |-> mtimeMs]

MsPerSecond == 1000

\* ageSeconds > config.maxTestOutputAge, with ageSeconds = (now - mtimeMs) / 1000;
\* the division is exact here because both sides are compared in milliseconds
isStale_AtLeast(nowMs, mtimeMs, maxTestOutputAge) ==
    nowMs - mtimeMs >= maxTestOutputAge * MsPerSecond

isStale(nowMs, mtimeMs, maxTestOutputAge) ==
    nowMs - mtimeMs > maxTestOutputAge * MsPerSecond

\* message.replace('TDD: ', ''): the first occurrence of the piece is removed
replace_Nothing(message, piece) == message

RECURSIVE replace(_, _)
replace(message, piece) ==
    IF message = <<>> THEN <<>>
    ELSE IF Head(message) = piece THEN Tail(message)
    ELSE <<Head(message)>> \o replace(Tail(message), piece)

(***************************************************************************)
(* Verifier (verifier.ts).  A response text is a sequence of tokens: a     *)
(* code fence, the tag json, white space, the JSON text of a value, or     *)
(* other text.                                                             *)
(***************************************************************************)
Fence == [t |-> "fence"]
JsonTag == [t |-> "tag"]
Space == [t |-> "space"]
Prose == [t |-> "prose"]
Json(value) == [t |-> "json", value |-> value]

\* the JSON text of a value one of whose strings holds a code fence: the
\* text before the fence, the fence, the text after it
JsonHead(value) == [t |-> "jsonHead", value |-> value]
JsonTail(value) == [t |-> "jsonTail", value |-> value]
JsonAroundFence(value) == <<JsonHead(value), Fence, JsonTail(value)>>

\* positions of the fences of a response
FencesFrom(response, i) == {k \in i..Len(response) : response[k] = Fence}

\* first position at or after i that holds no white space
RECURSIVE SkipSpace(_, _)
SkipSpace(response, i) ==
    IF i <= Len(response) /\ response[i] = Space
    THEN SkipSpace(response, i + 1)
    ELSE i

\* String.prototype.trim
RECURSIVE TrimLeft(_)
TrimLeft(text) ==
    IF text # <<>> /\ Head(text) = Space THEN TrimLeft(Tail(text)) ELSE text

RECURSIVE TrimRight(_)
TrimRight(text) ==
    IF text # <<>> /\ text[Len(text)] = Space
    THEN TrimRight(SubSeq(text, 1, Len(text) - 1))
    ELSE text

trim(text) == TrimRight(TrimLeft(text))

Min(S) == CHOOSE x \in S : \A y \in S : x <= y

\* response.match(/```(?:json)?\s*([\s\S]*?)```/): the leftmost fence that
\* a later fence closes opens the block; the tag and the white space after
\* it are skipped, and the capture runs to the next fence
extractJson(response) ==
    LET fences == FencesFrom(response, 1)
    IN  IF Cardinality(fences) < 2 THEN response
        ELSE LET open == Min(fences)
                 afterTag == IF response[open + 1] = JsonTag
                             THEN open + 2 ELSE open + 1
                 start == SkipSpace(response, afterTag)
                 close == Min(FencesFrom(response, start))
             IN  trim(SubSeq(response, start, close - 1))

\* JSON.parse: white space around the value is allowed, anything else but
\* exactly one JSON text is a SyntaxError
JsonParse_EmptyAsObject(text) ==
    LET body == trim(text)
    IN  IF Len(body) = 1 /\ body[1].t = "json" THEN Value(body[1].value)
        ELSE IF Len(body) = 3 /\ body[1].t = "jsonHead"
                /\ body = JsonAroundFence(body[1].value)
        THEN Value(body[1].value)
        ELSE IF body = <<>> THEN Value(JObj(<<>>))
        ELSE Thrown(ErrorOf(<<"SyntaxError">>))

JsonParse(text) ==
    LET body == trim(text)
    IN  IF Len(body) = 1 /\ body[1].t = "json"
        THEN Value(body[1].value)
        ELSE IF Len(body) = 3 /\ body[1].t = "jsonHead"
                /\ body = JsonAroundFence(body[1].value)
        THEN Value(body[1].value)
        ELSE Thrown(ErrorOf(<<"SyntaxError">>))

parseResponse(response) ==
    LET parsed == JsonParse(extractJson(response))
    IN  IF parsed.ok THEN parsed
        ELSE Thrown(ErrorOf(<<"Invalid verifier response">>))

DefaultBlockReason_Empty == <<>>

DefaultBlockReason == <<"Verification blocked">>

\* a JSON string spliced into a template literal
Pieces(value) == IF value.s = "" THEN <<>> ELSE <<value.s>>

Allowed == [allowed |-> TRUE]
Blocked(reason) == [allowed |-> FALSE, reason |-> reason]

\* lines 78-89 of verifyEdit: the verdict of a response text
verdictOf_DecisionOnly(response) ==
    LET parsed == parseResponse(response)
    IN  IF ~parsed.ok \/ JGetThrows(parsed.value)
        THEN Blocked(<<"Invalid verifier response">>)
        ELSE IF JGet(parsed.value, "decision") # JStr("allow")
        THEN LET reason == JGet(parsed.value, "reason")
             IN  Blocked(IF reason.ty \in {"undefined", "null"}
                         THEN DefaultBlockReason
                         ELSE Pieces(reason))
        ELSE Allowed

verdictOf(response) ==
    LET parsed == parseResponse(response)
    IN  IF ~parsed.ok \/ JGetThrows(parsed.value)
        THEN Blocked(<<"Invalid verifier response">>)
        ELSE IF JGet(parsed.value, "editType") = JStr("test")
        THEN Allowed
        ELSE IF JGet(parsed.value, "decision") # JStr("allow")
        THEN LET reason == JGet(parsed.value, "reason")
             IN  Blocked(IF reason.ty \in {"undefined", "null"}
                         THEN DefaultBlockReason
                         ELSE Pieces(reason))
        ELSE Allowed

\* the outcome of client.chat: a response text, or a thrown value
Returned(text) == [kind |-> "returned", text |-> text]
Threw(thrown) == [kind |-> "threw", thrown |-> thrown]

\* lines 73-76 of verifyEdit: the catch around the chat call
chatFailure_Bare(thrown) ==
    Blocked(IF thrown.isError THEN thrown.message ELSE <<"Unknown error">>)


chatFailure(thrown) ==
    LET message == IF thrown.isError THEN thrown.message ELSE <<"Unknown error">>
    IN  Blocked(<<"Verification failed: ">> \o message)

verifyEdit(chat) ==
    IF chat.kind = "threw" THEN chatFailure(chat.thrown) ELSE verdictOf(chat.text)

(***************************************************************************)
(* The hook (index.ts, TDDPlugin "tool.execute.before") and the logger     *)
(* (logger.ts).  An invocation advances from one await to the next:        *)
(*   loadConfig -> stat -> readFile -> chat -> mkdir -> appendFile -> done *)
(***************************************************************************)
Procs == {"h1"}

\* the client handed to the plugin: an object with a chat function, none, or
\* the host's SDK client (session.create, session.prompt, session.delete)
MockClient == [kind |-> "mock"]
NoClient == [kind |-> "none"]
SdkClient == [kind |-> "sdk"]
Clients == {MockClient, NoClient}

ArtifactPath == ".opencode/tdd/test-output.txt"

None == [kind |-> "none"]
Pending == [kind |-> "pending"]
ReturnedVoid == [kind |-> "returned"]
ThrewError(error) == [kind |-> "threw", error |-> error]

IdleInv ==
    [pc |-> "idle", tool |-> "", args |-> JUndefined, filePath |-> "",
     cfg |-> None, testOutput |-> <<>>, editContent |-> <<>>,
     request |-> <<>>, chat |-> None, result |-> None,
     log |-> None, line |-> <<>>, then |-> None, outcome |-> None,
     cfgReads |-> 0, stats |-> 0, reads |-> 0, chats |-> 0, appended |-> <<>>,
     childId |-> 0, creates |-> 0, prompts |-> 0, deletes |-> 0]

\* line 196: ['edit', 'write'].includes(input.tool)
isFileTool_AlsoBash(tool) == tool \in {"edit", "write", "bash"}

isFileTool(tool) == tool \in {"edit", "write"}

\* line 200: output.args.filePath as string; an absent path reads "undefined"
\* wherever it is spliced into a message
filePathOf(args) ==
    LET value == JGet(args, "filePath")
    IN  IF value.ty = "string" THEN value.s ELSE "undefined"

\* (args.content as string) ?? '' and (args.newString as string) ?? ''
getEditContent_AlwaysNewString(tool, args) ==
    LET value == JGet(args, "newString")
    IN  IF value.ty \in {"undefined", "null"} THEN <<>> ELSE Pieces(value)

getEditContent(tool, args) ==
    LET value == IF tool = "write" THEN JGet(args, "content")
                 ELSE JGet(args, "newString")
    IN  IF value.ty \in {"undefined", "null"} THEN <<>> ELSE Pieces(value)

\* the branch enforceOneFailingTestRule takes
ruleOf_BlockAboveTwo(failCount) ==
    IF failCount > 2 THEN "BLOCKED"
    ELSE IF failCount >= 1 THEN "RED"
    ELSE "GREEN"

ruleOf_NoRed(failCount) ==
    IF failCount > 1 THEN "BLOCKED"
    ELSE "GREEN"

ruleOf(failCount) ==
    IF failCount > 1 THEN "BLOCKED"
    ELSE IF failCount = 1 THEN "RED"
    ELSE "GREEN"

\* new Error(`TDD: ${reason}`)
blockError_NoTag(reason) == ErrorOf(reason)

blockError(reason) == ErrorOf(<<"TDD: ">> \o reason)

\* the two messages verifyEdit sends
SystemPrompt == "You are a TDD (Test-Driven Development) compliance verifier."

messagesOf(filePath, editContent, testOutput) ==
    << [role |-> "system", content |-> <<SystemPrompt>>],
       [role |-> "user",
        content |-> <<"File: ", filePath, "\nEdit Content:\n">> \o editContent
                      \o <<"\n\nTest Output:\n">> \o testOutput] >>

\* `[${timestamp}] [${level}] ${message}\n`
\* new Date().toISOString() for a clock reading within the first day of the
\* epoch: "1970-01-01T" hh ":" mm ":" ss "." mmm "Z", given by its fields
toISOString(ms) ==
    [date |-> "1970-01-01",
     hh |-> (ms \div 3600000) % 24, mm |-> (ms \div 60000) % 60,
     ss |-> (ms \div 1000) % 60, mmm |-> ms % 1000, zone |-> "Z"]

\* logger.ts line 16: `[${timestamp}] [${level}] ${message}\n`
formatLine(timestamp, level, message) ==
    <<"[", toISOString(timestamp), "] [", level, "] ">> \o message \o <<"\n">>

\* logger.ts line 17: appendFile(logPath, line) adds the line at the end of
\* the file in one write
appendFile_Overwrite(file, line) == <<line>>

appendFile(file, line) == Append(file, line)

\* logger.<level>(message) is awaited, then the hook returns or throws
LogThen(r, level, message, then) ==
    [r EXCEPT !.pc = "mkdir",
              !.log = [level |-> level, message |-> message],
              !.then = then]

Finish(r, outcome) == [r EXCEPT !.pc = "done", !.outcome = outcome]

(***************************************************************************)
(* Inputs.                                                                 *)
(***************************************************************************)
Paths == {"src/example.ts", "test/example.test.ts"}

ToolCalls ==
    {[tool |-> "bash", args |-> JObj([command |-> JStr("echo ok")])]}
    \cup {[tool |-> t, args |-> JObj([filePath |-> JStr(f)])] :
              t \in {"edit", "write"}, f \in Paths}
    \cup {[tool |-> t,
           args |-> JObj([filePath |-> JStr(f),
                          content |-> JStr("full file content"),
                          newString |-> JStr("new code here")])] :
              t \in {"edit", "write"}, f \in Paths}

BothPatterns == JArr(<<JStr("src/**"), JStr("test/**")>>)

ValidConfigs ==
    { JObj([testOutputFile |-> JStr(ArtifactPath),
            enforcePatterns |-> BothPatterns,
            verifierModel |-> JStr("test-model")]),
      JObj([testOutputFile |-> JStr(ArtifactPath),
            enforcePatterns |-> BothPatterns,
            verifierModel |-> JStr("test-model"),
            maxTestOutputAge |-> JNum(1)]),
      JObj([testOutputFile |-> JStr(ArtifactPath),
            enforcePatterns |-> JArr(<<JStr("src/**")>>),
            verifierModel |-> JStr("test-model")]),
      JObj([testOutputFile |-> JStr(ArtifactPath),
            enforcePatterns |-> JArr(<<>>),
            verifierModel |-> JStr("test-model")]),
      JObj([testOutputFile |-> JStr(ArtifactPath),
            verifierModel |-> JStr("test-model")]) }

InvalidConfigs ==
    { JNull,
      JObj([enforcePatterns |-> BothPatterns,
            verifierModel |-> JStr("test-model")]),
      JObj([testOutputFile |-> JStr(ArtifactPath),
            enforcePatterns |-> BothPatterns,
            verifierModel |-> JStr("")]),
      JObj([testOutputFile |-> JStr(ArtifactPath),
            enforcePatterns |-> JStr("not-an-array"),
            verifierModel |-> JStr("test-model")]),
      JObj([testOutputFile |-> JStr(ArtifactPath),
            enforcePatterns |-> JArr(<<JStr("src/**"), JNum(1)>>),
            verifierModel |-> JStr("test-model")]) }

CfgFiles ==
    {NoFile, FileEmpty, FileNotJson}
    \cup {FileJson(v) : v \in ValidConfigs \cup InvalidConfigs}

\* test-output texts, character by character
TextPass == <<"P", "A", "S", "S">>
TextOneFail == <<"F", "A", "I", "L", " ", "a", "\n", "P", "A", "S", "S">>
TextTwoFail == <<"F", "A", "I", "L", " ", "a", "\n", "F", "A", "I", "L", " ", "b">>
TextFails == <<"F", "A", "I", "L", "S">>

Texts == {TextPass, TextOneFail, TextTwoFail, TextFails}

\* clock readings and modification times, in milliseconds: the ages they
\* give are 1000, 1001, 300000 and 300001 ms
Nows == {300001, 300002}
MTimes == {1, 299001}

Artifacts ==
    {NoArtifact, UnreadableArtifact(299001)}
    \cup {ArtifactOf(t, m) : t \in Texts, m \in MTimes}

\* verifier response texts
Verdict(fields) == Json(JObj(fields))

\* the responses of the verifier backend: every combination of the three
\* verdict fields, bare or inside a fenced block, and texts that are no JSON
EditTypes == {JUndefined, JStr("test"), JStr("impl"), JStr("other")}
Decisions == {JUndefined, JStr("allow"), JStr("block"), JStr("maybe")}
Reasons == {JUndefined, JNull, JStr(""), JStr("Write test first")}

\* the object holding the fields that are given
VerdictObject(editType, decision, reason) ==
    LET given == [editType |-> editType, decision |-> decision, reason |-> reason]
        keys == {k \in DOMAIN given : given[k] # JUndefined}
    IN  JObj([k \in keys |-> given[k]])

AllowVerdict == VerdictObject(JStr("impl"), JStr("allow"), JUndefined)
BlockVerdict == VerdictObject(JStr("impl"), JStr("block"), JStr("Write test first"))

\* a verdict whose reason string holds a code fence (three backquotes, written
\* here as the word FENCE)
FenceInReason ==
    VerdictObject(JStr("test"), JStr("allow"), JStr("covers the FENCE marker"))

VerdictObjects ==
    {VerdictObject(e, d, r) : e \in EditTypes, d \in Decisions, r \in Reasons}

Responses ==
    {<<Json(v)>> : v \in VerdictObjects}
    \cup {<<Fence, JsonTag, Space, Json(v), Space, Fence>> : v \in VerdictObjects}
    \cup {<<Fence, Space, Json(v), Space, Fence>> : v \in VerdictObjects}
    \cup {<<Json(JNull)>>, <<Json(JStr("allow"))>>, <<Prose>>, <<>>, <<Space>>,
          <<Fence, JsonTag, Space, Prose, Space, Fence>>,
          <<Prose, Space, Json(AllowVerdict)>>, <<Json(AllowVerdict), Space, Prose>>,
          JsonAroundFence(FenceInReason),
          <<Fence, JsonTag, Space>> \o JsonAroundFence(FenceInReason) \o <<Space, Fence>>}

ThrownValues == {ErrorOf(<<"Network error">>), NonError(<<"boom">>)}

ChatOutcomes ==
    {Returned(r) : r \in Responses} \cup {Threw(e) : e \in ThrownValues}

\* the outcomes a hook invocation is tried with when the files vary
FewChatOutcomes ==
    { Returned(<<Json(VerdictObject(JStr("impl"), JStr("allow"), JUndefined))>>),
      Returned(<<Json(VerdictObject(JStr("impl"), JStr("block"),
                                    JStr("Write test first")))>>),
      Returned(<<Json(VerdictObject(JUndefined, JStr("block"), JUndefined))>>),
      Returned(<<Json(VerdictObject(JStr("test"), JStr("block"), JUndefined))>>),
      Returned(<<Prose>>),
      Threw(ErrorOf(<<"Network error">>)) }


(***************************************************************************)
(* Initial states: the plugin is constructed, no hook invocation has       *)
(* started; the project's files and the clock are whatever they are.       *)
(***************************************************************************)
Init ==
    /\ cfgFile \in CfgFiles
    /\ artifact \in Artifacts
    /\ now \in Nows
    /\ logDir = artifact.exists
    /\ logFile = <<>>
    /\ inv = [p \in Procs |-> IdleInv]
    /\ calls = 0
    /\ client \in Clients
    /\ sessions = <<>>

Quiescent == \A p \in DOMAIN inv : inv[p].pc = "idle"

(***************************************************************************)
(* The host calls the hook before a tool runs.  Lines 196-200: any tool    *)
(* other than edit and write returns at once.                              *)
(***************************************************************************)
CallWith(p, toolCalls) ==
    /\ inv[p].pc = "idle"
    /\ calls < MaxCalls
    /\ \E c \in toolCalls :
          LET r == [IdleInv EXCEPT !.tool = c.tool, !.args = c.args]
          IN  inv' = [inv EXCEPT ![p] =
                  IF ~isFileTool(c.tool)
                  THEN Finish(r, ReturnedVoid)
                  ELSE [r EXCEPT !.pc = "loadConfig",
                                 !.filePath = filePathOf(c.args),
                                 !.outcome = Pending]]
    /\ calls' = calls + 1
    /\ UNCHANGED <<cfgFile, artifact, now, logDir, logFile, client, sessions>>

Call(p) == CallWith(p, ToolCalls)

\* line 202: const configResult = await loadConfig(projectRoot), in every
\* invocation anew
configResult_FirstCallOnly(file) ==
    IF calls > 1 THEN [kind |-> "missing"] ELSE loadConfig(file)

configResult(file) == loadConfig(file)

\* lines 202-209: the configuration is read, then the scope is decided
LoadConfig(p) ==
    /\ inv[p].pc = "loadConfig"
    /\ LET cfg == configResult(cfgFile)
           r == [inv[p] EXCEPT !.cfg = cfg, !.cfgReads = @ + 1]
       IN  inv' = [inv EXCEPT ![p] =
               IF cfg.kind = "missing" THEN Finish(r, ReturnedVoid)
               ELSE IF cfg.kind = "throw" THEN Finish(r, ThrewError(cfg.error))
               ELSE IF ~isEnforced(r.filePath, cfg.config.enforcePatterns)
               THEN Finish(r, ReturnedVoid)
               ELSE [r EXCEPT !.pc = "stat"]]
    /\ UNCHANGED <<cfgFile, artifact, now, logDir, logFile, calls, client, sessions>>

\* the file a path names
FileAt(path) == IF path = ArtifactPath THEN artifact ELSE NoArtifact

\* getTestOutputWithLogging, lines 31-34: the error is logged, then rethrown
LogAndRethrow_ReturnsQuietly(r, error) == Finish(r, ReturnedVoid)

LogAndRethrow_NoLog(r, error) == Finish(r, ThrewError(error))

LogAndRethrow(r, error) ==
    LogThen(r, "ERROR", replace(error.message, "TDD: "), ThrewError(error))

\* getTestOutput, lines 10-19: stat, then the age check
Stat(p) ==
    /\ inv[p].pc = "stat"
    /\ LET config == inv[p].cfg.config
           file == FileAt(config.testOutputFile)
           r == [inv[p] EXCEPT !.stats = @ + 1]
       IN  inv' = [inv EXCEPT ![p] =
               IF ~file.exists
               THEN LogAndRethrow(r, ErrorOf(<<"TDD: ", "Run tests first">>))
               ELSE IF isStale(now, file.mtimeMs, config.maxTestOutputAge)
               THEN LogAndRethrow(r, ErrorOf(<<"TDD: ", "Re-run tests">>))
               ELSE [r EXCEPT !.pc = "readFile"]]
    /\ UNCHANGED <<cfgFile, artifact, now, logDir, logFile, calls, client, sessions>>

\* enforceOneFailingTestRule, lines 154-170, up to the verifier call
ApplyRule(r) ==
    LET rule == ruleOf(countFailingTests(r.testOutput))
    IN  IF rule = "BLOCKED"
        THEN LogThen(r, "WARN",
                     <<"Blocked: ", "Fix existing failing test first", " - ", r.filePath>>,
                     ThrewError(ErrorOf(<<"TDD: ", "Fix existing failing test first">>)))
        ELSE IF rule = "RED"
        THEN LogThen(r, "INFO", <<"Allowed edit (RED)", ": ", r.filePath>>, ReturnedVoid)
        ELSE [r EXCEPT !.pc = "chat",
                       !.request = messagesOf(r.filePath, r.editContent, r.testOutput)]

\* getTestOutput line 21, then lines 217-226 of the hook
ReadFile(p) ==
    /\ inv[p].pc = "readFile"
    /\ LET file == FileAt(inv[p].cfg.config.testOutputFile)
           r == [inv[p] EXCEPT !.reads = @ + 1]
       IN  inv' = [inv EXCEPT ![p] =
               IF ~file.exists
               THEN LogAndRethrow(r, ErrorOf(<<"ENOENT: no such file or directory">>))
               ELSE IF ~file.readable
               THEN LogAndRethrow(r, ErrorOf(<<"EISDIR: illegal operation on a directory">>))
               ELSE ApplyRule([r EXCEPT !.testOutput = file.text,
                                        !.editContent = getEditContent(r.tool, r.args)])]
    /\ UNCHANGED <<cfgFile, artifact, now, logDir, logFile, calls, client, sessions>>

\* resolveLlmClient, lines 109-115, and createSdkAdapter's chat, line 70: a
\* client with a chat function is called as it is and settles as it likes;
\* with no client, reading sdkClient.session throws a TypeError
chatOutcomes(c, outcomes) ==
    IF c = MockClient THEN outcomes
    ELSE {Threw(ErrorOf(<<"TypeError: cannot read properties of undefined">>))}

\* verifyWithLlm, were the artifact read again and the verifier asked again
\* for as long as the chat call fails
verifyWithLlm_RetryForever(r0, chat) ==
    IF chat.kind = "threw"
    THEN [r0 EXCEPT !.pc = "readFile", !.reads = 0, !.creates = 0,
                    !.prompts = 0, !.deletes = 0, !.childId = 0]
    ELSE LET result == verifyEdit(chat)
             r == [r0 EXCEPT !.chats = @ + 1, !.chat = chat, !.result = result]
         IN  IF ~result.allowed
             THEN LogThen(r, "WARN",
                          <<"Blocked: ">> \o result.reason \o <<" - ", r.filePath>>,
                          ThrewError(blockError(result.reason)))
             ELSE LogThen(r, "INFO",
                          <<"Allowed edit (verified)", ": ", r.filePath>>,
                          ReturnedVoid)

\* verifyWithLlm, were a failed chat call tried once more
verifyWithLlm_RetryOnFailure(r0, chat) ==
    IF chat.kind = "threw" /\ r0.chats = 0
    THEN [r0 EXCEPT !.chats = @ + 1, !.chat = chat]
    ELSE LET result == verifyEdit(chat)
             r == [r0 EXCEPT !.chats = @ + 1, !.chat = chat, !.result = result]
         IN  IF ~result.allowed
             THEN LogThen(r, "WARN",
                          <<"Blocked: ">> \o result.reason \o <<" - ", r.filePath>>,
                          ThrewError(blockError(result.reason)))
             ELSE LogThen(r, "INFO",
                          <<"Allowed edit (verified)", ": ", r.filePath>>,
                          ReturnedVoid)

\* verifyWithLlm, lines 173-188: the chat call has settled, the verdict is
\* logged
verifyWithLlm(r0, chat) ==
    LET result == verifyEdit(chat)
        r == [r0 EXCEPT !.chats = @ + 1, !.chat = chat, !.result = result]
    IN  IF ~result.allowed
        THEN LogThen(r, "WARN",
                     <<"Blocked: ">> \o result.reason \o <<" - ", r.filePath>>,
                     ThrewError(blockError(result.reason)))
        ELSE LogThen(r, "INFO",
                     <<"Allowed edit (verified)", ": ", r.filePath>>,
                     ReturnedVoid)

\* a client with a chat function, or none: the chat call settles in one step
ChatWith(p, outcomes) ==
    /\ inv[p].pc = "chat"
    /\ client # SdkClient
    /\ \E chat \in chatOutcomes(client, outcomes) :
          inv' = [inv EXCEPT ![p] = verifyWithLlm(@, chat)]
    /\ UNCHANGED <<cfgFile, artifact, now, logDir, logFile, calls, client, sessions>>

Chat(p) == ChatWith(p, FewChatOutcomes)

(***************************************************************************)
(* The SDK adapter (index.ts, createSdkAdapter).  Its chat awaits three    *)
(* calls of the host in turn: session.create, session.prompt and, in the   *)
(* finally block, session.delete.  The host keeps the sessions; each       *)
(* records who created it and the calls it received, oldest first.         *)
(***************************************************************************)
Resolved(value) == [kind |-> "resolved", value |-> value]
Rejected(error) == [kind |-> "rejected", error |-> error]

\* what session.create settles with: a result holding an id, a result
\* holding an error, a result holding neither, or a rejection
CreateOutcomes ==
    { Resolved([error |-> FALSE, created |-> TRUE]),
      Resolved([error |-> TRUE, created |-> FALSE]),
      Resolved([error |-> FALSE, created |-> FALSE]),
      Rejected(ErrorOf(<<"Network error">>)) }

\* what session.prompt settles with: parts with a text part, with an empty
\* text, with no text part or no parts, a result holding an error, or a
\* rejection
TextPart(text) == [type |-> "text", text |-> text]
OtherPart == [type |-> "reasoning", text |-> <<Prose>>]
PromptParts ==
    { <<TextPart(<<Json(AllowVerdict)>>)>>,
      <<OtherPart, TextPart(<<Json(BlockVerdict)>>)>>,
      <<TextPart(<<>>)>>, <<OtherPart>>, <<>> }
PromptOutcomes ==
    {Resolved([error |-> FALSE, parts |-> parts]) : parts \in PromptParts}
    \cup { Resolved([error |-> TRUE, parts |-> <<>>]),
           Rejected(ErrorOf(<<"Network error">>)) }

\* what session.delete settles with
DeleteOutcomes == {Resolved(JUndefined), Rejected(ErrorOf(<<"Network error">>))}

\* the host gives each new session an id no other session has
NewSessionId == Len(sessions) + 1

\* line 67: the prompt is the system message, a blank line, the user message
combinedPrompt(messages) ==
    messages[1].content \o <<"\n\n">> \o messages[2].content

\* lines 89-100: the chat's result after the prompt settled
promptResultOf(outcome) ==
    IF outcome.kind = "rejected" THEN Threw(outcome.error)
    ELSE IF outcome.value.error
    THEN Threw(ErrorOf(<<"Verification prompt failed">>))
    ELSE LET textParts == SelectSeq(outcome.value.parts, LAMBDA q : q.type = "text")
             response == IF textParts = <<>> THEN <<>> ELSE textParts[1].text
         IN  IF response = <<>>
             THEN Threw(ErrorOf(<<"No LLM response text received">>))
             ELSE Returned(response)

\* lines 70-78: the session is created; without an id the chat throws.  An
\* invocation creates one session at most, so the host never holds more than
\* MaxCalls of them
SessionCreate(p) ==
    /\ inv[p].pc = "chat"
    /\ client = SdkClient
    /\ Len(sessions) < MaxCalls
    /\ \E outcome \in CreateOutcomes :
          LET r == [inv[p] EXCEPT !.creates = @ + 1]
          IN  IF outcome.kind = "rejected"
              THEN /\ inv' = [inv EXCEPT ![p] = verifyWithLlm(r, Threw(outcome.error))]
                   /\ UNCHANGED sessions
              ELSE IF outcome.value.error \/ ~outcome.value.created
              THEN /\ inv' = [inv EXCEPT ![p] =
                          verifyWithLlm(r, Threw(ErrorOf(
                              <<"Failed to create verification session">>)))]
                   /\ UNCHANGED sessions
              ELSE /\ inv' = [inv EXCEPT ![p] =
                          [r EXCEPT !.pc = "prompt", !.childId = NewSessionId]]
                   /\ sessions' = Append(sessions,
                          [owner |-> p, live |-> TRUE, received |-> <<>>])
    /\ UNCHANGED <<cfgFile, artifact, now, logDir, logFile, calls, client>>

\* a call the host receives for a session
Receive(id, call) ==
    [sessions EXCEPT ![id].received = Append(@, call)]

\* lines 82 and 102: path: { id: childId }
targetOf_First(r) == 1

targetOf(r) == r.childId

\* lines 80-103, try and finally: whether the try block returned or threw,
\* the delete comes next, and what the chat is to return or throw is kept
\* until the finally block is through
afterTry_NoFinally(r, result) ==
    IF result.kind = "threw" THEN verifyWithLlm(r, result)
    ELSE [r EXCEPT !.pc = "delete", !.chat = result]

afterTry(r, result) == [r EXCEPT !.pc = "delete", !.chat = result]

\* lines 81-100: the prompt is sent to the child session
SessionPrompt(p) ==
    /\ inv[p].pc = "prompt"
    /\ \E outcome \in PromptOutcomes :
          inv' = [inv EXCEPT ![p] =
                     afterTry([@ EXCEPT !.prompts = @ + 1], promptResultOf(outcome))]
    /\ sessions' = Receive(targetOf(inv[p]),
                       [op |-> "prompt", by |-> p,
                        text |-> combinedPrompt(inv[p].request)])
    /\ UNCHANGED <<cfgFile, artifact, now, logDir, logFile, calls, client>>

\* lines 101-103: the child session is deleted, a failure of the delete is
\* swallowed, and the chat returns or throws what the try block left
SessionDelete(p) ==
    /\ inv[p].pc = "delete"
    /\ \E outcome \in DeleteOutcomes :
          sessions' = [Receive(targetOf(inv[p]), [op |-> "delete", by |-> p])
                          EXCEPT ![targetOf(inv[p])].live =
                              IF outcome.kind = "resolved" THEN FALSE ELSE @]
    /\ inv' = [inv EXCEPT ![p] =
           verifyWithLlm([@ EXCEPT !.deletes = @ + 1], inv[p].chat)]
    /\ UNCHANGED <<cfgFile, artifact, now, logDir, logFile, calls, client>>

\* logger.ts lines 14-16: the directory is made, the line is formatted
Mkdir(p) ==
    /\ inv[p].pc = "mkdir"
    /\ logDir' = TRUE
    /\ inv' = [inv EXCEPT ![p].pc = "appendFile",
                          ![p].line = formatLine(now, inv[p].log.level,
                                                 inv[p].log.message)]
    /\ UNCHANGED <<cfgFile, artifact, now, logFile, calls, client, sessions>>

\* logger.ts line 17, then the hook returns or throws
AppendFile(p) ==
    /\ inv[p].pc = "appendFile"
    /\ logFile' = appendFile(logFile, inv[p].line)
    /\ inv' = [inv EXCEPT ![p] =
           Finish([@ EXCEPT !.appended = Append(@, inv[p].line)], inv[p].then)]
    /\ UNCHANGED <<cfgFile, artifact, now, logDir, calls, client, sessions>>

\* the logger's calls are awaited without a catch (logger.ts lines 14 and 17,
\* index.ts lines 33, 158, 165, 183 and 187): an error of mkdir or appendFile
\* leaves the hook in place of what was to follow
logFailure_Swallowed(r, error) == Finish(r, r.then)

logFailure(r, error) == Finish(r, ThrewError(error))

MkdirError == ErrorOf(<<"EACCES: permission denied, mkdir">>)
AppendFileError == ErrorOf(<<"ENOSPC: no space left on device, write">>)

\* logger.ts line 14: mkdir throws
MkdirThrows(p) ==
    /\ inv[p].pc = "mkdir"
    /\ inv' = [inv EXCEPT ![p] = logFailure(@, MkdirError)]
    /\ UNCHANGED <<cfgFile, artifact, now, logDir, logFile, calls, client, sessions>>

\* logger.ts line 17: appendFile throws, nothing is written
AppendFileThrows(p) ==
    /\ inv[p].pc = "appendFile"
    /\ inv' = [inv EXCEPT ![p] = logFailure(@, AppendFileError)]
    /\ UNCHANGED <<cfgFile, artifact, now, logDir, logFile, calls, client, sessions>>

\* the host takes the outcome; the invocation is over
Complete(p) ==
    /\ inv[p].pc = "done"
    /\ inv' = [inv EXCEPT ![p] = IdleInv]
    /\ UNCHANGED <<cfgFile, artifact, now, logDir, logFile, calls, client, sessions>>

(***************************************************************************)
(* The environment, between invocations: time passes.                      *)
(***************************************************************************)
Tick ==
    /\ Quiescent
    /\ \E t \in Nows : t > now /\ now' = t
    /\ UNCHANGED <<cfgFile, artifact, logDir, logFile, inv, calls, client, sessions>>

Next ==
    \/ \E p \in Procs :
          \/ Call(p)
          \/ LoadConfig(p)
          \/ Stat(p)
          \/ ReadFile(p)
          \/ Chat(p)
          \/ Mkdir(p)
          \/ AppendFile(p)
          \/ Complete(p)
    \/ Tick

Spec == Init /\ [][Next]_vars

(***************************************************************************)
(* The verifier under every response: the project is fixed in the GREEN    *)
(* state (configuration loaded, path in scope, fresh artifact, no failing  *)
(* marker) and the backend answers with any response or throws.            *)
(***************************************************************************)
GreenConfig ==
    FileJson(JObj([testOutputFile |-> JStr(ArtifactPath),
                   enforcePatterns |-> BothPatterns,
                   verifierModel |-> JStr("test-model")]))

InitVerifier ==
    /\ cfgFile = GreenConfig
    /\ artifact = ArtifactOf(TextPass, 299001)
    /\ now = 300001
    /\ logDir = TRUE
    /\ logFile = <<>>
    /\ inv = [p \in Procs |-> IdleInv]
    /\ calls = 0
    /\ client = MockClient
    /\ sessions = <<>>

GreenCalls ==
    { [tool |-> "bash", args |-> JObj([command |-> JStr("echo ok")])],
      [tool |-> "edit",
       args |-> JObj([filePath |-> JStr("src/example.ts"),
                      newString |-> JStr("new code here")])],
      [tool |-> "write",
       args |-> JObj([filePath |-> JStr("test/example.test.ts"),
                      content |-> JStr("full file content")])] }

CallGreen(p) == CallWith(p, GreenCalls)

ChatAny(p) == ChatWith(p, ChatOutcomes)

NextVerifier ==
    \E p \in Procs :
        \/ CallGreen(p)
        \/ LoadConfig(p)
        \/ Stat(p)
        \/ ReadFile(p)
        \/ ChatAny(p)
        \/ Mkdir(p)
        \/ AppendFile(p)
        \/ Complete(p)

SpecVerifier == InitVerifier /\ [][NextVerifier]_vars

(***************************************************************************)
(* The logger under interleaved invocations: two invocations are in flight *)
(* at once and advance in any order, the clock advances at any moment, and *)
(* the log directory and the log may or may not be there at the start.     *)
(***************************************************************************)
LogProcs == {"h1", "h2"}

OldLine == formatLine(1, "INFO", <<"Allowed edit (RED)", ": ", "src/old.ts">>)

LoggerArtifacts ==
    {NoArtifact} \cup {ArtifactOf(t, 299001) : t \in {TextPass, TextOneFail, TextTwoFail}}

InitLogger ==
    /\ cfgFile = GreenConfig
    /\ artifact \in LoggerArtifacts
    /\ now = 300001
    /\ logDir = artifact.exists
    /\ logFile \in (IF logDir THEN {<<>>, <<OldLine>>} ELSE {<<>>})
    /\ inv = [p \in LogProcs |-> IdleInv]
    /\ calls = 0
    /\ client = MockClient
    /\ sessions = <<>>

LoggerCalls ==
    { [tool |-> "edit",
       args |-> JObj([filePath |-> JStr("src/example.ts"),
                      newString |-> JStr("new code here")])] }

CallLogger(p) == CallWith(p, LoggerCalls)

\* the clock advances while invocations are in flight
TickAny ==
    /\ \E t \in Nows : t > now /\ now' = t
    /\ UNCHANGED <<cfgFile, artifact, logDir, logFile, inv, calls, client, sessions>>

NextLogger ==
    \/ \E p \in LogProcs :
          \/ CallLogger(p)
          \/ LoadConfig(p)
          \/ Stat(p)
          \/ ReadFile(p)
          \/ Chat(p)
          \/ Mkdir(p)
          \/ AppendFile(p)
          \/ Complete(p)
    \/ TickAny

SpecLogger == InitLogger /\ [][NextLogger]_vars

(***************************************************************************)
(* The hook with the host's SDK client: two invocations are in flight at   *)
(* once and advance in any order; the project is fixed in the GREEN state, *)
(* so each invocation reaches the verifier, and every call of the host     *)
(* settles in any of the ways it can.                                      *)
(***************************************************************************)
InitSdk ==
    /\ cfgFile = GreenConfig
    /\ artifact = ArtifactOf(TextPass, 299001)
    /\ now = 300001
    /\ logDir = TRUE
    /\ logFile = <<>>
    /\ inv = [p \in LogProcs |-> IdleInv]
    /\ calls = 0
    /\ client = SdkClient
    /\ sessions = <<>>

\* the edit each of the two asks about: they differ, so their prompts differ
SdkCallOf ==
    [p \in LogProcs |->
        IF p = "h1"
        THEN [tool |-> "edit",
              args |-> JObj([filePath |-> JStr("src/example.ts"),
                             newString |-> JStr("new code here")])]
        ELSE [tool |-> "write",
              args |-> JObj([filePath |-> JStr("test/example.test.ts"),
                             content |-> JStr("full file content")])]]

CallSdk(p) == CallWith(p, {SdkCallOf[p]})

NextSdk ==
    \E p \in LogProcs :
        \/ CallSdk(p)
        \/ LoadConfig(p)
        \/ Stat(p)
        \/ ReadFile(p)
        \/ SessionCreate(p)
        \/ SessionPrompt(p)
        \/ SessionDelete(p)
        \/ Mkdir(p)
        \/ AppendFile(p)
        \/ Complete(p)

SpecSdk == InitSdk /\ [][NextSdk]_vars

(***************************************************************************)
(* The failing-marker count under many texts: the project is fixed with a  *)
(* loaded configuration, a path in scope and a fresh artifact, and the     *)
(* artifact's text is any run of up to three of the words below.           *)
(***************************************************************************)
MaxWords == 3

Glyph == <<"U+2717">>

CountWords ==
    { <<"F", "A", "I", "L">>, <<"f", "a", "i", "l", "e", "d">>,
      <<"F", "a", "i", "l", "i", "n", "g">>, Glyph,
      <<"U+00E2", "U+0153", "U+2014">>, <<"s">>, <<" ">>, <<"\n">> }

RECURSIVE TextsOf(_)
TextsOf(n) ==
    IF n = 0 THEN {<<>>}
    ELSE LET shorter == TextsOf(n - 1)
         IN  shorter \cup {t \o w : t \in shorter, w \in CountWords}

CountTexts == TextsOf(MaxWords)

InitCount ==
    /\ cfgFile = GreenConfig
    /\ artifact \in {ArtifactOf(t, 299001) : t \in CountTexts}
    /\ now = 300001
    /\ logDir = TRUE
    /\ logFile = <<>>
    /\ inv = [p \in Procs |-> IdleInv]
    /\ calls = 0
    /\ client = MockClient
    /\ sessions = <<>>

NextCount ==
    \E p \in Procs :
        \/ CallLogger(p)
        \/ LoadConfig(p)
        \/ Stat(p)
        \/ ReadFile(p)
        \/ Chat(p)
        \/ Mkdir(p)
        \/ AppendFile(p)
        \/ Complete(p)

SpecCount == InitCount /\ [][NextCount]_vars

(***************************************************************************)
(* The hook while the project changes: between two invocations the         *)
(* configuration file and the artifact are replaced by any others, and the *)
(* clock advances.                                                         *)
(***************************************************************************)
ChangeCfgs ==
    { NoFile, FileNotJson, GreenConfig,
      FileJson(JObj([testOutputFile |-> JStr(ArtifactPath),
                     verifierModel |-> JStr("test-model")])) }

ChangeArtifacts ==
    {NoArtifact, ArtifactOf(TextPass, 1)}
    \cup {ArtifactOf(t, 299001) : t \in {TextPass, TextOneFail, TextTwoFail}}

InitChange ==
    /\ cfgFile \in ChangeCfgs
    /\ artifact \in ChangeArtifacts
    /\ now = 300001
    /\ logDir = artifact.exists
    /\ logFile = <<>>
    /\ inv = [p \in Procs |-> IdleInv]
    /\ calls = 0
    /\ client = MockClient
    /\ sessions = <<>>

\* another process rewrites the configuration or runs the tests again
ChangeFiles ==
    /\ Quiescent
    /\ cfgFile' \in ChangeCfgs
    /\ artifact' \in ChangeArtifacts
    /\ <<cfgFile', artifact'>> # <<cfgFile, artifact>>
    /\ UNCHANGED <<now, logDir, logFile, inv, calls, client, sessions>>

NextChange ==
    \/ \E p \in Procs :
          \/ CallGreen(p)
          \/ LoadConfig(p)
          \/ Stat(p)
          \/ ReadFile(p)
          \/ Chat(p)
          \/ Mkdir(p)
          \/ AppendFile(p)
          \/ Complete(p)
    \/ Tick
    \/ ChangeFiles

SpecChange == InitChange /\ [][NextChange]_vars

(***************************************************************************)
(* The hook when every call it awaits settles: the client is one with a    *)
(* chat function or the host's SDK client, and each call of the file       *)
(* system and of the client, once made, returns or throws after a while.   *)
(* When the host calls the hook and when it takes the outcome is up to the *)
(* host.                                                                   *)
(***************************************************************************)
InitSettling ==
    /\ cfgFile = GreenConfig
    /\ artifact \in LoggerArtifacts
    /\ now = 300001
    /\ logDir = artifact.exists
    /\ logFile = <<>>
    /\ inv = [p \in Procs |-> IdleInv]
    /\ calls = 0
    /\ client \in {MockClient, SdkClient}
    /\ sessions = <<>>

NextSettling ==
    \E p \in Procs :
        \/ CallLogger(p)
        \/ LoadConfig(p)
        \/ Stat(p)
        \/ ReadFile(p)
        \/ Chat(p)
        \/ SessionCreate(p)
        \/ SessionPrompt(p)
        \/ SessionDelete(p)
        \/ Mkdir(p)
        \/ AppendFile(p)
        \/ Complete(p)

\* the call an invocation is waiting for settles; an invocation waits for
\* one call at a time
Settle(p) ==
    \/ LoadConfig(p) \/ Stat(p) \/ ReadFile(p)
    \/ Chat(p) \/ SessionCreate(p) \/ SessionPrompt(p) \/ SessionDelete(p)
    \/ Mkdir(p) \/ AppendFile(p)

CallsSettle == \A p \in Procs : WF_vars(Settle(p))

SpecSettling == InitSettling /\ [][NextSettling]_vars /\ CallsSettle

(***************************************************************************)
(* The hook when the log cannot be written: creating the log directory or  *)
(* appending the line may throw.                                           *)
(***************************************************************************)
InitLogFailure ==
    /\ cfgFile = GreenConfig
    /\ artifact \in LoggerArtifacts
    /\ now = 300001
    /\ logDir = artifact.exists
    /\ logFile = <<>>
    /\ inv = [p \in Procs |-> IdleInv]
    /\ calls = 0
    /\ client = MockClient
    /\ sessions = <<>>

NextLogFailure ==
    \E p \in Procs :
        \/ CallGreen(p)
        \/ LoadConfig(p)
        \/ Stat(p)
        \/ ReadFile(p)
        \/ Chat(p)
        \/ Mkdir(p)
        \/ MkdirThrows(p)
        \/ AppendFile(p)
        \/ AppendFileThrows(p)
        \/ Complete(p)

SpecLogFailure == InitLogFailure /\ [][NextLogFailure]_vars

(***************************************************************************)
(* The reader while another process removes the artifact: the removal      *)
(* falls between an invocation's stat, which found the artifact fresh, and *)
(* its read.                                                               *)
(***************************************************************************)
InitRace ==
    /\ cfgFile = GreenConfig
    /\ artifact \in {ArtifactOf(t, m) : t \in Texts, m \in MTimes}
    /\ now \in Nows
    /\ logDir = TRUE
    /\ logFile = <<>>
    /\ inv = [p \in Procs |-> IdleInv]
    /\ calls = 0
    /\ client = MockClient
    /\ sessions = <<>>

RemoveArtifact ==
    /\ \E p \in Procs : inv[p].pc = "readFile"
    /\ artifact.exists
    /\ artifact' = NoArtifact
    /\ UNCHANGED <<cfgFile, now, logDir, logFile, inv, calls, client, sessions>>

NextRace ==
    \/ \E p \in Procs :
          \/ CallGreen(p)
          \/ LoadConfig(p)
          \/ Stat(p)
          \/ ReadFile(p)
          \/ Chat(p)
          \/ Mkdir(p)
          \/ AppendFile(p)
          \/ Complete(p)
    \/ RemoveArtifact

SpecRace == InitRace /\ [][NextRace]_vars

(***************************************************************************)
(* What the claims speak about.  Under Spec and SpecVerifier the files and *)
(* the clock change only between invocations, so the configuration, the    *)
(* artifact and the clock of a state are those the invocation in flight    *)
(* has seen.                                                               *)
(***************************************************************************)
Started(p) == inv[p].pc # "idle"
Done(p) == inv[p].pc = "done"
EditOrWrite(p) == Started(p) /\ inv[p].tool \in {"edit", "write"}

\* loadConfig and countFailingTests over the files and texts of the model
ConfigOf == [file \in CfgFiles |-> loadConfig(file)]
FailCountOf == [text \in Texts \cup {<<>>} |-> countFailingTests(text)]

ConfigLoaded == ConfigOf[cfgFile].kind = "loaded"
LoadedConfig == ConfigOf[cfgFile].config

\* some enforcePatterns entry matches the path
MatchedByAPattern(path) ==
    LET patterns == LoadedConfig.enforcePatterns
    IN  /\ patterns.defined
        /\ \E i \in DOMAIN patterns.list : GlobMatch(Split(patterns.list[i]), Split(path))

InScope(p) == EditOrWrite(p) /\ ConfigLoaded /\ MatchedByAPattern(inv[p].filePath)
OutOfScope(p) == EditOrWrite(p) /\ ConfigLoaded /\ ~MatchedByAPattern(inv[p].filePath)

AgeMs == now - artifact.mtimeMs
MaxAgeMs == LoadedConfig.maxTestOutputAge * MsPerSecond
FreshArtifact == artifact.exists /\ artifact.readable /\ AgeMs <= MaxAgeMs
StaleArtifact == artifact.exists /\ AgeMs > MaxAgeMs
FailingCount == FailCountOf[artifact.text]

\* the invocation has reached the verifier, the logger or its end
Acted(p) == inv[p].pc \in {"chat", "mkdir", "appendFile", "done"}

ThrewMessage(p, message) == inv[p].outcome = ThrewError(ErrorOf(message))
Allows(p) == inv[p].outcome = ReturnedVoid

\* the level and the message of a formatted log line
LevelOf(line) == line[4]
MessageOf(line) == SubSeq(line, 6, Len(line) - 1)

\* the invocation appended exactly one line, of this level
LoggedOnce(p, level) ==
    /\ Len(inv[p].appended) = 1
    /\ LevelOf(inv[p].appended[1]) = level
    /\ logFile # <<>> /\ logFile[Len(logFile)] = inv[p].appended[1]

TouchedNothing(p) ==
    /\ inv[p].stats = 0 /\ inv[p].reads = 0 /\ inv[p].chats = 0
    /\ inv[p].appended = <<>>
    /\ inv[p].pc \in {"loadConfig", "done"}

C2_BlockedState ==
    \A p \in Procs :
        Acted(p) /\ InScope(p) /\ FreshArtifact /\ FailingCount > 1 =>
            /\ inv[p].chats = 0 /\ inv[p].pc # "chat"
            /\ Done(p) =>
                  /\ ThrewMessage(p, <<"TDD: ", "Fix existing failing test first">>)
                  /\ LoggedOnce(p, "WARN")

C2_Witness ==
    \E p \in Procs :
        /\ Done(p) /\ InScope(p) /\ FreshArtifact /\ FailingCount = 2
        /\ ThrewMessage(p, <<"TDD: ", "Fix existing failing test first">>)
        /\ LoggedOnce(p, "WARN")

(***************************************************************************)
(* C3.  In scope, fresh artifact, exactly one failing marker: the hook     *)
(* returns for any path, has appended the INFO line "Allowed edit (RED):   *)
(* <path>", and the verifier is never called.                              *)
(***************************************************************************)
C3_RedAllows ==
    \A p \in Procs :
        Acted(p) /\ InScope(p) /\ FreshArtifact /\ FailingCount = 1 =>
            /\ inv[p].chats = 0 /\ inv[p].pc # "chat"
            /\ Done(p) =>
                  /\ Allows(p)
                  /\ LoggedOnce(p, "INFO")
                  /\ MessageOf(inv[p].appended[1])
                        = <<"Allowed edit (RED)", ": ", inv[p].filePath>>

C3_Witness ==
    \E p \in Procs :
        /\ Done(p) /\ InScope(p) /\ FreshArtifact /\ FailingCount = 1
        /\ inv[p].filePath = "test/example.test.ts"
        /\ Allows(p) /\ LoggedOnce(p, "INFO")

(***************************************************************************)
(* C4.  In scope, fresh artifact, no failing marker: the verifier is       *)
(* called exactly once, for every path; the hook returns and logs INFO     *)
(* when the verdict allows, and throws "TDD: " followed by the verdict's   *)
(* reason and logs WARN when it does not.                                  *)
(***************************************************************************)
C4_GreenFollowsVerifier ==
    \A p \in Procs :
        Acted(p) /\ InScope(p) /\ FreshArtifact /\ FailingCount = 0 =>
            /\ inv[p].chats = IF inv[p].pc = "chat" THEN 0 ELSE 1
            /\ Done(p) =>
                  IF inv[p].result.allowed
                  THEN Allows(p) /\ LoggedOnce(p, "INFO")
                  ELSE /\ ThrewMessage(p, <<"TDD: ">> \o inv[p].result.reason)
                       /\ LoggedOnce(p, "WARN")

C4_Witness ==
    \E p \in Procs :
        /\ Done(p) /\ InScope(p) /\ FreshArtifact /\ FailingCount = 0
        /\ inv[p].filePath = "test/example.test.ts"
        /\ inv[p].chats = 1
        /\ ~inv[p].result.allowed
        /\ ThrewMessage(p, <<"TDD: ", "Write test first">>)
        /\ LoggedOnce(p, "WARN")

(***************************************************************************)
(* C5.  In scope, the artifact present: at an age of exactly               *)
(* maxTestOutputAge seconds the artifact is read and the failing-count     *)
(* rule decides (never "Re-run tests"); at any greater age the hook throws *)
(* "TDD: Re-run tests" without reading the artifact or calling the         *)
(* verifier, whatever the text holds.                                      *)
(***************************************************************************)
C5_FreshnessStrict ==
    \A p \in Procs :
        Acted(p) /\ InScope(p) /\ artifact.exists =>
            /\ AgeMs = MaxAgeMs =>
                  /\ inv[p].reads = 1
                  /\ inv[p].testOutput = artifact.text
                  /\ ~ThrewMessage(p, <<"TDD: ", "Re-run tests">>)
                  /\ inv[p].then # ThrewError(ErrorOf(<<"TDD: ", "Re-run tests">>))
            /\ AgeMs > MaxAgeMs =>
                  /\ inv[p].reads = 0 /\ inv[p].chats = 0 /\ inv[p].pc # "chat"
                  /\ inv[p].then = ThrewError(ErrorOf(<<"TDD: ", "Re-run tests">>))
                  /\ Done(p) => ThrewMessage(p, <<"TDD: ", "Re-run tests">>)

\* a RED artifact allowed at the boundary age, then blocked one millisecond on
C5_Witness ==
    \E p \in Procs :
        /\ Done(p) /\ InScope(p) /\ artifact.exists
        /\ AgeMs = MaxAgeMs + 1
        /\ FailingCount = 1
        /\ ThrewMessage(p, <<"TDD: ", "Re-run tests">>)
        /\ Len(logFile) = 2
        /\ LevelOf(logFile[1]) = "INFO"
        /\ MessageOf(logFile[1]) = <<"Allowed edit (RED)", ": ", inv[p].filePath>>

(***************************************************************************)
(* C6.  In scope, the artifact missing (respectively stale): the hook      *)
(* appends one ERROR line whose message is "Run tests first"               *)
(* (respectively "Re-run tests") without the "TDD: " prefix, and has no    *)
(* outcome before the line is in the log; it then throws the error whose   *)
(* message keeps the prefix.  The artifact is not read, the failing-count  *)
(* rule and the verifier are not reached.                                  *)
(***************************************************************************)
C6_ReaderFailureLogged ==
    \A p \in Procs :
        Acted(p) /\ InScope(p) /\ (~artifact.exists \/ StaleArtifact) =>
            LET reason == IF ~artifact.exists THEN "Run tests first" ELSE "Re-run tests"
            IN  /\ inv[p].reads = 0 /\ inv[p].chats = 0 /\ inv[p].pc # "chat"
                /\ inv[p].log = [level |-> "ERROR", message |-> <<reason>>]
                /\ IF Done(p)
                   THEN /\ inv[p].appended = <<formatLine(now, "ERROR", <<reason>>)>>
                        /\ LoggedOnce(p, "ERROR")
                        /\ ThrewMessage(p, <<"TDD: ", reason>>)
                   ELSE /\ inv[p].appended = <<>>
                        /\ inv[p].outcome = Pending

C6_Witness ==
    \E p \in Procs :
        /\ Done(p) /\ InScope(p) /\ ~artifact.exists
        /\ ThrewMessage(p, <<"TDD: ", "Run tests first">>)
        /\ LoggedOnce(p, "ERROR")
        /\ MessageOf(inv[p].appended[1]) = <<"Run tests first">>

(***************************************************************************)
(* The verdict a response carries: the one JSON value written in it.       *)
(***************************************************************************)
ChatReturned(p) == inv[p].chats = 1 /\ inv[p].chat.kind = "returned"
ChatThrew(p) == inv[p].chats = 1 /\ inv[p].chat.kind = "threw"

Parseable(response) == parseResponse(response).ok

CarriedValue(response) ==
    LET k == CHOOSE i \in DOMAIN response : response[i].t \in {"json", "jsonHead"}
    IN  response[k].value

HasField(value, key) == value.ty = "object" /\ key \in DOMAIN value.fields
FieldIs(value, key, s) == HasField(value, key) /\ value.fields[key] = JStr(s)

(***************************************************************************)
(* C7.  For every response that parses, verifyEdit allows exactly when the *)
(* editType field is "test" or the decision field is "allow": a test edit  *)
(* is allowed under decision "block", and an edit that is not a test edit  *)
(* is blocked under a missing decision or any decision but "allow".        *)
(***************************************************************************)
C7_AllowedIffTestOrAllow ==
    \A p \in Procs :
        ChatReturned(p) /\ Parseable(inv[p].chat.text) =>
            LET value == CarriedValue(inv[p].chat.text)
            IN  inv[p].result.allowed
                    <=> \/ FieldIs(value, "editType", "test")
                        \/ FieldIs(value, "decision", "allow")

C7_Witness ==
    \E p \in Procs :
        /\ Done(p)
        /\ inv[p].chat = Returned(<<Fence, JsonTag, Space,
                                    Json(VerdictObject(JStr("test"), JStr("block"),
                                                       JStr("Write test first"))),
                                    Space, Fence>>)
        /\ inv[p].result = Allowed
        /\ Allows(p)

(***************************************************************************)
(* C8.  A response that parses to a value whose fields can be read, with   *)
(* an editType other than "test", a decision other than "allow" and no     *)
(* reason field, is blocked with the reason "Verification blocked": the    *)
(* reason is there and is not empty.                                       *)
(***************************************************************************)
C8_DefaultReason ==
    \A p \in Procs :
        ChatReturned(p) /\ Parseable(inv[p].chat.text) =>
            LET value == CarriedValue(inv[p].chat.text)
            IN  /\ value.ty \notin {"null", "undefined"}
                /\ ~FieldIs(value, "editType", "test")
                /\ ~FieldIs(value, "decision", "allow")
                /\ ~HasField(value, "reason")
                => /\ ~inv[p].result.allowed
                   /\ "reason" \in DOMAIN inv[p].result
                   /\ inv[p].result.reason # <<>>
                   /\ inv[p].result.reason = <<"Verification blocked">>

C8_Witness ==
    \E p \in Procs :
        /\ Done(p)
        /\ inv[p].chat = Returned(<<Json(VerdictObject(JStr("impl"), JStr("maybe"),
                                                       JUndefined))>>)
        /\ inv[p].result = Blocked(<<"Verification blocked">>)
        /\ ThrewMessage(p, <<"TDD: ", "Verification blocked">>)

(***************************************************************************)
(* C9.  For the response {"decision":"block"} verifyEdit returns           *)
(* {allowed: false, reason: "Write a failing test first"}.                 *)
(***************************************************************************)
C9_WriteAFailingTestFirst ==
    \A p \in Procs :
        ChatReturned(p)
        /\ inv[p].chat.text = <<Json(JObj([decision |-> JStr("block")]))>>
        => inv[p].result = Blocked(<<"Write a failing test first">>)

(***************************************************************************)
(* C10.  When the chat call throws, verifyEdit returns a block whose       *)
(* reason is "Verification failed: " followed by the message of the thrown *)
(* Error ("Unknown error" for a thrown value that is no Error); the hook   *)
(* logs WARN and throws "TDD: Verification failed: ...", never the thrown  *)
(* value itself.                                                           *)
(***************************************************************************)
C10_ChatFailureBlocks ==
    \A p \in Procs :
        ChatThrew(p) =>
            LET thrown == inv[p].chat.thrown
                message == IF thrown.isError THEN thrown.message
                           ELSE <<"Unknown error">>
                reason == <<"Verification failed: ">> \o message
            IN  /\ inv[p].result = Blocked(reason)
                /\ inv[p].outcome # ThrewError(thrown)
                /\ inv[p].then = ThrewError(ErrorOf(<<"TDD: ">> \o reason))
                /\ Done(p) =>
                      /\ ThrewMessage(p, <<"TDD: ">> \o reason)
                      /\ LoggedOnce(p, "WARN")

C10_Witness ==
    \E p \in Procs :
        /\ Done(p)
        /\ inv[p].chat = Threw(ErrorOf(<<"Network error">>))
        /\ inv[p].result = Blocked(<<"Verification failed: ", "Network error">>)
        /\ ThrewMessage(p, <<"TDD: ", "Verification failed: ", "Network error">>)
        /\ LoggedOnce(p, "WARN")

(***************************************************************************)
(* C11.  A returned response that holds no JSON text (empty, white space   *)
(* only, prose, a fenced block of prose), or JSON text with prose around   *)
(* it and no fence, is blocked with "Invalid verifier response": the hook  *)
(* throws the policy error and logs WARN; nothing is allowed, and no other *)
(* error comes out.                                                        *)
(***************************************************************************)
HoldsNoJson(response) ==
    \A i \in DOMAIN response : response[i].t \notin {"json", "jsonHead", "jsonTail"}
HoldsProseUnfenced(response) ==
    /\ \A i \in DOMAIN response : response[i] # Fence
    /\ \E i \in DOMAIN response : response[i] = Prose

VerdictTexts ==
    {<<Json(v)>> : v \in VerdictObjects} \cup {JsonAroundFence(FenceInReason)}

Fenced(j) ==
    { <<Fence, JsonTag, Space>> \o j \o <<Space, Fence>>,
      <<Fence, Space>> \o j \o <<Space, Fence>> }

C12_FencingTransparent ==
    \A p \in Procs :
        ChatReturned(p) =>
            \A j \in VerdictTexts :
                inv[p].chat.text \in Fenced(j)
                    => inv[p].result = verifyEdit(Returned(j))

(***************************************************************************)
(* C13.  With no client, an in-scope edit in GREEN (fresh artifact, no     *)
(* failing marker) is allowed and an INFO line is logged.                  *)
(***************************************************************************)
C13_NoClientAllows ==
    \A p \in Procs :
        Done(p) /\ client = NoClient
        /\ InScope(p) /\ FreshArtifact /\ FailingCount = 0
        => Allows(p) /\ LoggedOnce(p, "INFO")

(***************************************************************************)
(* C14.  With no configuration file, every invocation, whatever the tool   *)
(* and the path, returns; the artifact is neither stat-ed nor read, the    *)
(* verifier is not called and the log stays as it was.                     *)
(***************************************************************************)
C14_NoConfigAllowsAll ==
    \A p \in Procs :
        Started(p) /\ cfgFile = NoFile =>
            /\ inv[p].stats = 0 /\ inv[p].reads = 0 /\ inv[p].chats = 0
            /\ inv[p].appended = <<>> /\ logFile = <<>>
            /\ inv[p].pc \in {"loadConfig", "done"}
            /\ inv[p].outcome \in {Pending, ReturnedVoid}
            /\ Done(p) => Allows(p)

\* a write to a source path returned, the artifact holding two failures
C14_Witness ==
    \E p \in Procs :
        /\ Done(p) /\ cfgFile = NoFile
        /\ inv[p].tool = "write" /\ inv[p].filePath = "src/example.ts"
        /\ inv[p].cfgReads = 1
        /\ artifact.exists /\ artifact.text = TextTwoFail
        /\ Allows(p) /\ logFile = <<>>

(***************************************************************************)
(* C15.  A configuration file that is present but invalid blocks every     *)
(* edit or write, whatever the path, with the error of one of its defects  *)
(* and without a log line: "TDD: Invalid config JSON" for content that is  *)
(* no JSON text, "TDD: Missing config field: <field>" for a missing or     *)
(* empty testOutputFile or verifierModel, "TDD: enforcePatterns must be an *)
(* array of strings" for an enforcePatterns that is no array of strings.   *)
(***************************************************************************)
MissingOrEmpty(value, key) ==
    ~HasField(value, key) \/ value.fields[key].ty # "string"
        \/ value.fields[key].s = ""

NoStringArray(value) ==
    value.ty # "array" \/ \E i \in DOMAIN value.items : value.items[i].ty # "string"

\* the errors the defects of a configuration file call for
ConfigDefects(file) ==
    IF file.kind # "json" THEN {<<"TDD: ", "Invalid config JSON">>}
    ELSE {<<"TDD: ", "Missing config field: ", f>> :
              f \in {g \in {"testOutputFile", "verifierModel"} :
                        MissingOrEmpty(file.value, g)}}
         \cup (IF HasField(file.value, "enforcePatterns")
                    /\ NoStringArray(file.value.fields["enforcePatterns"])
               THEN {<<"TDD: ", "enforcePatterns", " must be an array of strings">>}
               ELSE {})

C15_InvalidConfigBlocks ==
    \A p \in Procs :
        Done(p) /\ EditOrWrite(p) /\ cfgFile.exists /\ ConfigDefects(cfgFile) # {}
        => /\ \E m \in ConfigDefects(cfgFile) : ThrewMessage(p, m)
           /\ inv[p].appended = <<>>

(***************************************************************************)
(* C16.  A call of a tool other than edit and write returns at once: the   *)
(* configuration is not loaded, the artifact is neither stat-ed nor read,  *)
(* the verifier is not called, nothing is logged; so also under an invalid *)
(* configuration or without an artifact.                                   *)
(***************************************************************************)
C16_OtherToolsPassThrough ==
    \A p \in Procs :
        Started(p) /\ inv[p].tool \notin {"edit", "write"} =>
            /\ Done(p) /\ Allows(p)
            /\ inv[p].cfgReads = 0 /\ inv[p].cfg = None
            /\ inv[p].stats = 0 /\ inv[p].reads = 0 /\ inv[p].chats = 0
            /\ inv[p].appended = <<>>

C16_Witness ==
    \E p \in Procs :
        /\ Done(p) /\ inv[p].tool = "bash" /\ Allows(p)
        /\ cfgFile = FileNotJson /\ ~artifact.exists
        /\ inv[p].cfgReads = 0 /\ logFile = <<>>

(***************************************************************************)
(* C17.  Every step leaves the log as it is, or completes one logger call  *)
(* and adds that call's line at the end of the log: the content before is  *)
(* kept, the line is whole, "[<ISO-8601 timestamp>] [<LEVEL>] <message>\n" *)
(* with the level and the message of the call and the time it was          *)
(* formatted at, and the log directory exists by then.  So for             *)
(* invocations that interleave.                                            *)
(***************************************************************************)
IsIsoTimestamp(stamp) ==
    /\ stamp.date = "1970-01-01" /\ stamp.zone = "Z"
    /\ stamp.hh \in 0..23 /\ stamp.mm \in 0..59
    /\ stamp.ss \in 0..59 /\ stamp.mmm \in 0..999
    /\ ((stamp.hh * 60 + stamp.mm) * 60 + stamp.ss) * 1000 + stamp.mmm \in Nows

IsLineOf(line, call) ==
    /\ Len(line) = Len(call.message) + 6
    /\ line[1] = "[" /\ IsIsoTimestamp(line[2]) /\ line[3] = "] ["
    /\ line[4] = call.level /\ call.level \in {"INFO", "WARN", "ERROR"}
    /\ line[5] = "] "
    /\ MessageOf(line) = call.message
    /\ line[Len(line)] = "\n"

Completing(p) == inv[p].pc = "appendFile" /\ inv'[p].pc = "done"

C17_LogAppendOnly ==
    [][ /\ (\A p \in DOMAIN inv : ~Completing(p)) => logFile' = logFile
        /\ \A p \in DOMAIN inv :
              Completing(p) =>
                  /\ logFile' = Append(logFile, inv[p].line)
                  /\ IsLineOf(inv[p].line, inv[p].log)
                  /\ logDir
        /\ \A p \in DOMAIN inv :
              inv[p].pc = "mkdir" /\ inv'[p].pc = "appendFile" => logDir'
      ]_vars

\* both invocations have logged after the old line; the line formatted
\* first was appended last
C17_Witness ==
    /\ Len(logFile) = 3 /\ logFile[1] = OldLine
    /\ inv["h1"].pc = "done" /\ inv["h2"].pc = "done"
    /\ logFile[2] = inv["h2"].appended[1]
    /\ logFile[3] = inv["h1"].appended[1]
    /\ logFile[2][2].mmm = 2 /\ logFile[3][2].mmm = 1
    /\ LevelOf(logFile[2]) = "WARN"

(***************************************************************************)
(* C18.  An in-scope invocation under a loaded configuration has no        *)
(* outcome until its log line is appended, and ends with exactly one line: *)
(* ERROR and a throw for a missing or stale artifact, WARN and a throw for *)
(* more than one failing marker or a verifier block, INFO and a return for *)
(* one failing marker or a verifier allow.                                 *)
(***************************************************************************)
ExpectedLevel(p) ==
    IF ~artifact.exists \/ StaleArtifact \/ ~artifact.readable THEN "ERROR"
    ELSE IF FailingCount > 1 THEN "WARN"
    ELSE IF FailingCount = 1 THEN "INFO"
    ELSE IF inv[p].result.allowed THEN "INFO" ELSE "WARN"

C18_DecisionMirrored ==
    \A p \in Procs :
        InScope(p) =>
            IF Done(p)
            THEN /\ LoggedOnce(p, ExpectedLevel(p))
                 /\ Allows(p) <=> ExpectedLevel(p) = "INFO"
                 /\ inv[p].outcome.kind = "threw" <=> ExpectedLevel(p) \in {"WARN", "ERROR"}
            ELSE /\ inv[p].outcome = Pending
                 /\ inv[p].appended = <<>>

C18_Witness ==
    \E p \in Procs :
        /\ Done(p) /\ InScope(p) /\ FreshArtifact /\ FailingCount = 0
        /\ inv[p].result = Allowed
        /\ Allows(p) /\ LoggedOnce(p, "INFO")
        /\ MessageOf(inv[p].appended[1])
              = <<"Allowed edit (verified)", ": ", inv[p].filePath>>

(***************************************************************************)
(* C19.  Every invocation ends by returning nothing, or by throwing an     *)
(* error whose message starts with "TDD: ".                                *)
(***************************************************************************)
C19_TwoOutcomes ==
    \A p \in Procs :
        Done(p) =>
            \/ Allows(p)
            \/ /\ inv[p].outcome.kind = "threw"
               /\ inv[p].outcome.error.isError
               /\ inv[p].outcome.error.message # <<>>
               /\ Head(inv[p].outcome.error.message) = "TDD: "

(***************************************************************************)
(* C20.  Under a loaded configuration without enforcePatterns, an edit or  *)
(* write of any path is in scope: the artifact is stat-ed, and an edit     *)
(* without an artifact is blocked with "TDD: Run tests first".             *)
(***************************************************************************)
C20_OmittedPatternsEnforceAll ==
    \A p \in Procs :
        Done(p) /\ EditOrWrite(p) /\ ConfigLoaded
        /\ ~LoadedConfig.enforcePatterns.defined
        => /\ inv[p].stats = 1
           /\ ~artifact.exists => ThrewMessage(p, <<"TDD: ", "Run tests first">>)


(***************************************************************************)
(* C21.  The edit content sent to the verifier is args.content for a write *)
(* and args.newString for an edit, the empty text when that key is absent; *)
(* the request is two messages, system then user, and the user message     *)
(* holds the file path, that content and the whole test-output text.       *)
(***************************************************************************)
GivenContent(p) ==
    LET key == IF inv[p].tool = "write" THEN "content" ELSE "newString"
        fields == inv[p].args.fields
    IN  IF key \in DOMAIN fields THEN <<fields[key].s>> ELSE <<>>

RequestMade(p) == inv[p].pc = "chat" \/ inv[p].chats = 1

C21_RequestCarriesEdit ==
    \A p \in Procs :
        RequestMade(p) =>
            /\ Len(inv[p].request) = 2
            /\ inv[p].request[1].role = "system"
            /\ inv[p].request[1].content = <<SystemPrompt>>
            /\ inv[p].request[2].role = "user"
            /\ inv[p].request[2].content =
                   <<"File: ", inv[p].filePath, "\nEdit Content:\n">>
                   \o GivenContent(p) \o <<"\n\nTest Output:\n">> \o artifact.text

C21_Witness ==
    \E p \in Procs :
        /\ inv[p].chats = 1 /\ inv[p].tool = "write"
        /\ GivenContent(p) = <<"full file content">>
        /\ artifact.text # <<>>

(***************************************************************************)
(* C22.  The failing-marker count of a text is the number of whole-word    *)
(* occurrences of FAIL, of failed and of failing, in any letter case, plus *)
(* the number of occurrences of the failure glyph U+2717; BLOCKED, RED or  *)
(* GREEN follows from that sum alone.                                      *)
(***************************************************************************)
Indicators ==
    { [word |-> TRUE, chars |-> <<"f", "a", "i", "l">>],
      [word |-> TRUE, chars |-> <<"f", "a", "i", "l", "e", "d">>],
      [word |-> TRUE, chars |-> <<"f", "a", "i", "l", "i", "n", "g">>],
      [word |-> FALSE, chars |-> Glyph] }

\* the places where an indicator occurs; no indicator overlaps itself
OccurrencesOf(text, ind) ==
    {i \in DOMAIN text :
        IF ind.word THEN WordMatchAt(text, ind.chars, i)
        ELSE ExactMatchAt(text, ind.chars, i)}

RECURSIVE SumOver(_, _)
SumOver(text, inds) ==
    IF inds = {} THEN 0
    ELSE LET ind == CHOOSE x \in inds : TRUE
         IN  Cardinality(OccurrencesOf(text, ind)) + SumOver(text, inds \ {ind})

IndicatorCount(text) == SumOver(text, Indicators)

\* the branch an invocation took after reading the artifact
BranchTaken(p) ==
    IF inv[p].request # <<>> THEN "GREEN"
    ELSE IF inv[p].log.level = "INFO" THEN "RED"
    ELSE "BLOCKED"

C22_CountIsIndicatorSum ==
    \A p \in Procs :
        inv[p].reads = 1 =>
            /\ countFailingTests(inv[p].testOutput) = IndicatorCount(inv[p].testOutput)
            /\ BranchTaken(p) = ruleOf(IndicatorCount(inv[p].testOutput))

(***************************************************************************)
(* C23.  With the SDK client, every session that was created receives one  *)
(* prompt and then one delete, both from the invocation that created it,   *)
(* and the delete has been sent by the time the chat call settles, whether *)
(* the prompt gave a text or failed; when the creation fails, the chat     *)
(* throws and neither a prompt nor a delete is sent.                       *)
(***************************************************************************)
SessionIds == DOMAIN sessions

\* the calls a session has received, by kind
CallsOf(id, op) == SelectSeq(sessions[id].received, LAMBDA c : c.op = op)
OpsOf(id) == [k \in DOMAIN sessions[id].received |-> sessions[id].received[k].op]

\* the invocation in flight that created the session, if it has not ended
HolderOf(id) == {p \in DOMAIN inv : inv[p].childId = id}

ChatSettled(p) == inv[p].chats = 1

StageRank(pc) ==
    CASE pc = "idle" -> 0
      [] pc = "loadConfig" -> 1
      [] pc = "stat" -> 2
      [] pc = "readFile" -> 3
      [] pc \in {"chat", "prompt", "delete"} -> 4
      [] pc = "mkdir" -> 5
      [] pc = "appendFile" -> 6
      [] pc = "done" -> 7

C24_StagesInOrder ==
    [][\A p \in Procs :
          LET a == inv[p]
              b == inv'[p]
          IN  /\ b.pc # a.pc =>
                     \/ StageRank(b.pc) > StageRank(a.pc)
                     \/ (a.pc = "done" /\ b.pc = "idle")
              /\ b.cfgReads # a.cfgReads =>
                     (a.pc = "loadConfig" /\ b.cfgReads = 1) \/ b.pc = "idle"
              /\ b.stats # a.stats =>
                     (a.pc = "stat" /\ a.cfgReads = 1 /\ b.stats = 1) \/ b.pc = "idle"
              /\ b.reads # a.reads =>
                     (a.pc = "readFile" /\ a.stats = 1 /\ b.reads = 1) \/ b.pc = "idle"
              /\ b.chats # a.chats =>
                     \/ /\ a.pc = "chat" /\ a.reads = 1 /\ b.chats = 1
                        /\ a.appended = <<>> /\ a.log = None
                        /\ InScope(p) /\ FreshArtifact /\ FailingCount = 0
                        /\ b.pc = "mkdir"
                     \/ b.pc = "idle"
              /\ b.appended # a.appended =>
                     (a.pc = "appendFile" /\ b.pc = "done") \/ b.pc = "idle"
    ]_vars

\* a backend failure and a malformed response, each followed by the log
C24_Witness ==
    \E p \in Procs :
        /\ Done(p) /\ inv[p].chats = 1 /\ inv[p].appended # <<>>
        /\ \/ inv[p].chat.kind = "threw"
           \/ inv[p].chat = Returned(<<Prose>>)

(***************************************************************************)
(* C25.  The outcome of an invocation is a function of the tool call, the  *)
(* configuration file, the artifact and its age, and the verifier's        *)
(* answer, as they are during that invocation: whatever invocations came   *)
(* before and whatever the files were then, the outcome is the same.       *)
(***************************************************************************)
decisionOf(call, file, art, nowMs, chat) ==
    IF call.tool \notin {"edit", "write"} THEN ReturnedVoid
    ELSE LET cfg == ConfigOf[file]
         IN  IF cfg.kind = "missing" THEN ReturnedVoid
             ELSE IF cfg.kind = "throw" THEN ThrewError(cfg.error)
             ELSE IF ~cfg.config.enforcePatterns.defined
                     \/ ~picomatch(cfg.config.enforcePatterns.list,
                                   JGet(call.args, "filePath").s)
             THEN ReturnedVoid
             ELSE IF ~art.exists
             THEN ThrewError(ErrorOf(<<"TDD: ", "Run tests first">>))
             ELSE IF nowMs - art.mtimeMs > cfg.config.maxTestOutputAge * MsPerSecond
             THEN ThrewError(ErrorOf(<<"TDD: ", "Re-run tests">>))
             ELSE IF FailCountOf[art.text] > 1
             THEN ThrewError(ErrorOf(<<"TDD: ", "Fix existing failing test first">>))
             ELSE IF FailCountOf[art.text] = 1 THEN ReturnedVoid
             ELSE IF verifyEdit(chat).allowed THEN ReturnedVoid
             ELSE ThrewError(ErrorOf(<<"TDD: ">> \o verifyEdit(chat).reason))

C25_OutcomeIsAFunction ==
    \A p \in Procs :
        Done(p) =>
            inv[p].outcome =
                decisionOf([tool |-> inv[p].tool, args |-> inv[p].args],
                           cfgFile, artifact, now, inv[p].chat)

\* an edit allowed in the RED state, then, the tests run again with two
\* failures, the same edit blocked
C25_Witness ==
    \E p \in Procs :
        /\ Done(p) /\ calls = 2 /\ Len(logFile) = 2
        /\ LevelOf(logFile[1]) = "INFO" /\ LevelOf(logFile[2]) = "WARN"
        /\ FailingCount = 2
        /\ ThrewMessage(p, <<"TDD: ", "Fix existing failing test first">>)

(***************************************************************************)
(* C26.  One plugin instance creates at most one verifier session and      *)
(* reuses it: over any sequence of verifications at most one               *)
(* session.create call reaches the host.                                   *)
(***************************************************************************)
C26_OneSessionPerPlugin == Len(sessions) <= 1

(***************************************************************************)
(* C27.  When every call of the file system and of the client returns or   *)
(* throws after a while, every invocation that started comes to its end,   *)
(* returning (allow) or throwing (block).                                  *)
(***************************************************************************)
InFlight(p) == inv[p].pc \notin {"idle", "done"}

Ended(p) == inv[p].pc = "done" /\ inv[p].outcome.kind \in {"returned", "threw"}

C27_InvocationsEnd == \A p \in Procs : InFlight(p) ~> Ended(p)

\* an invocation has ended after its prompt failed and its session was deleted
C27_Witness ==
    \E p \in Procs :
        /\ Ended(p) /\ inv[p].deletes = 1 /\ inv[p].chat.kind = "threw"
        /\ inv[p].outcome.kind = "threw"

(***************************************************************************)
(* C28.  With the SDK client and invocations interleaved, each invocation  *)
(* creates a session of its own; a session receives calls only from the    *)
(* invocation that created it, carrying that invocation's prompt; no       *)
(* session receives a call after its delete; and when no invocation is in  *)
(* flight, every session created has received its delete.                  *)
(***************************************************************************)
NoneInFlight == \A p \in DOMAIN inv : inv[p].pc \in {"idle", "done"}

LogAttempted(p) == inv[p].log # None
LogFailed(p) == Done(p) /\ LogAttempted(p) /\ inv[p].appended = <<>>

C29_LogFailurePropagates ==
    \A p \in Procs :
        /\ LogFailed(p) =>
              /\ inv[p].outcome \in {ThrewError(MkdirError), ThrewError(AppendFileError)}
              /\ inv[p].outcome # inv[p].then
        /\ Done(p) /\ inv[p].appended # <<>> => inv[p].outcome = inv[p].then

\* an edit in the RED state, and the append of its log line failed
C29_Witness ==
    \E p \in Procs :
        /\ LogFailed(p) /\ artifact.exists /\ FailingCount = 1
        /\ inv[p].then = ReturnedVoid
        /\ inv[p].outcome = ThrewError(AppendFileError)

(***************************************************************************)
(* C30.  An invocation whose stat found the artifact fresh and whose read  *)
(* found it removed applies no failing-count rule and asks no verifier; it *)
(* logs the read failure's message at ERROR and throws the read failure,   *)
(* so the edit is never allowed.                                           *)
(***************************************************************************)
ReadError == ErrorOf(<<"ENOENT: no such file or directory">>)

\* the artifact was there at the stat and gone at the read
RemovedBeforeRead(p) ==
    inv[p].stats = 1 /\ inv[p].reads = 1 /\ ~artifact.exists

C30_RemovedArtifactBlocks ==
    \A p \in Procs :
        RemovedBeforeRead(p) =>
            /\ inv[p].chats = 0 /\ inv[p].request = <<>> /\ inv[p].testOutput = <<>>
            /\ inv[p].pc \in {"mkdir", "appendFile", "done"}
            /\ inv[p].log = [level |-> "ERROR", message |-> ReadError.message]
            /\ ~Allows(p)
            /\ Done(p) =>
                  /\ inv[p].outcome = ThrewError(ReadError)
                  /\ LoggedOnce(p, "ERROR")
                  /\ MessageOf(inv[p].appended[1]) = ReadError.message

C30_Witness ==
    \E p \in Procs :
        /\ RemovedBeforeRead(p) /\ Done(p)
        /\ inv[p].outcome = ThrewError(ReadError)
        /\ Len(logFile) = 1
====
